---------------------------- MODULE Spec2Model ----------------------------
(***************************************************************************)
(* Model of the two entry points of the trading-journal dashboard:         *)
(*   app.py            client initialisation, load_data behind a TTL cache, *)
(*                     page routing in main()                               *)
(*   streamlit_app.py  secrets/env configuration, sign_up / sign_in /       *)
(*                     sign_out and the script body that branches on        *)
(*                     'user' in st.session_state                           *)
(* Spec is the state machine of app.py, SpecAuth that of streamlit_app.py.  *)
(***************************************************************************)
EXTENDS Integers, Sequences, FiniteSets, TLC

VARIABLES
    \* ---- app.py ----
    cfg,            \* Config.is_*_configured() of the process
    clients,        \* what st.cache_resource holds for init_clients
    constructions,  \* how many times the body of init_clients ran
    now,            \* wall clock, seconds
    cache,          \* what st.cache_data holds for load_data, per argument
    lastExec,       \* per argument, the latest execution of load_data's body
    run,            \* the latest script run of app.py
    load,           \* one call of load_data's body, from its inputs to its result
    \* ---- streamlit_app.py ----
    env,            \* secrets file / environment of the process
    session,        \* st.session_state
    authLog,        \* history of the auth calls: last successful sign_in, sign_out since
    view            \* the latest script run of streamlit_app.py

appVars  == <<cfg, clients, constructions, now, cache, lastExec, run>>
authVars == <<env, session, authLog, view>>
vars     == <<cfg, clients, constructions, now, cache, lastExec, run, load,
              env, session, authLog, view>>

-----------------------------------------------------------------------------
(* Bounds of the model *)

MaxTrades == 2
MaxJournals == 1
MaxRerunTrades == 1
TickStep == 1800
MaxClock == 3600

(* Program constants *)

TTL == 3600
NumSampleTrades == 100
LookbackDays == 30

-----------------------------------------------------------------------------
(* Values *)

None == "None"

Symbols == {"MES", "ES"}

\* str(e) of an exception raised by an external service
ExcMsgs == {"", "timeout"}

Returned(v) == [kind |-> "return", value |-> v]
Raised(m)   == [kind |-> "raise", msg |-> m]

Trade(sym, origin) == [symbol |-> sym, origin |-> origin]
Journal(origin)    == [text |-> "entry", origin |-> origin]

SeqsUpTo(S, n) == UNION {[1..k -> S] : k \in 0..n}

\* what supabase_client.fetch_trades() / fetch_journals() may return
TradeLists   == SeqsUpTo({Trade(s, "supabase") : s \in Symbols}, MaxTrades)
JournalLists == SeqsUpTo({Journal("supabase")}, MaxJournals)

Note(level, text, detail) == [level |-> level, text |-> text, detail |-> detail]

Range(s) == {s[i] : i \in DOMAIN s}

Perms(S) == {p \in [1..Cardinality(S) -> S] : Range(p) = S}


EmptyDict == [s \in {} |-> None]

-----------------------------------------------------------------------------
(* app.py: collaborators whose code is outside the two entry points *)

\* SampleDataGenerator.generate_trades(num_trades): num_trades generated trades,
\* whose fields are the generator's business
GenerateTrades(n) == [i \in 1..n |-> "sample trade"]

\* SampleDataGenerator.generate_journals(trades): an entry keyed to each trade
GenerateJournals(trades) == [i \in DOMAIN trades |-> "sample journal"]

\* Config.validate(): the names of the settings that are missing
ConfigValidate(c) == {k \in DOMAIN c : ~c[k]}

\* databento_client.get_candlestick_data(symbol, end - 30 days, end)
Candles(symbol, at) == [symbol |-> symbol, end |-> at, days |-> LookbackDays]

\* pd.read_csv("./data/sample_market_data_MES.csv") with its timestamp column parsed
SampleCsv == [symbol |-> "MES", file |-> "sample_market_data_MES.csv"]

-----------------------------------------------------------------------------
(* app.py: init_clients *)

\* init_clients(): a client per configured service, None otherwise
InitClientsBody(c) ==
    [supabase  |-> IF c.supabase  THEN "SupabaseClient"  ELSE None,
     topstep   |-> IF c.topstep   THEN "TopStepClient"   ELSE None,
     databento |-> IF c.databento THEN "DatabentoClient" ELSE None,
     nlp       |-> IF c.openai    THEN "NLPProcessor"    ELSE None]

-----------------------------------------------------------------------------
(* app.py: load_data *)

\* The outcomes of the outside world during one execution of load_data:
\*   csvExists        : os.path.exists(sample_market_data_path)
\*   trades, journals : outcome of fetch_trades / fetch_journals
\*   candle[s]        : outcome of get_candlestick_data for symbol s
\*   order            : iteration order of list(set(symbols))
\* A call that the execution cannot reach has no outcome of its own: it is held
\* at one fixed value, so that two worlds differ only in what can be observed.
TradeOutcomes   == {Returned(v) : v \in TradeLists} \cup {Raised(m) : m \in ExcMsgs}
JournalOutcomes == {Returned(v) : v \in JournalLists} \cup {Raised(m) : m \in ExcMsgs}
CandleOutcomes  == {Returned("df")} \cup {Raised(m) : m \in ExcMsgs}

Quiet == [csvExists |-> TRUE,
          trades    |-> Returned(<<>>),
          journals  |-> Returned(<<>>),
          candle    |-> [s \in Symbols |-> Returned("df")],
          order     |-> CHOOSE p \in Perms(Symbols) : TRUE]

SymbolsOf(outcome) ==
    IF outcome.kind = "return"
    THEN {outcome.value[i].symbol : i \in DOMAIN outcome.value} ELSE {}

SampleWorlds == {[Quiet EXCEPT !.csvExists = b] : b \in BOOLEAN}

SupabaseWorlds ==
    {[Quiet EXCEPT !.trades = t, !.journals = j] :
        t \in TradeOutcomes,
        j \in JournalOutcomes}

MarketWorlds(w) ==
    LET syms == SymbolsOf(w.trades)
    IN  {[w EXCEPT !.candle = [s \in Symbols |-> IF s \in syms THEN c[s] ELSE @[s]],
                   !.order = o] :
            c \in [syms -> CandleOutcomes],
            o \in IF Cardinality(syms) > 1 THEN Perms(Symbols) ELSE {Quiet.order}}

LiveWorlds == UNION {MarketWorlds(w) : w \in SupabaseWorlds}

Worlds(use_sample_data) == IF use_sample_data THEN SampleWorlds ELSE LiveWorlds

\* The worlds the script runs of Spec draw from: the stored value is opaque to
\* the cache, so the runs fetch trade lists of the primary symbol only
RerunTradeLists == SeqsUpTo({Trade("MES", "supabase")}, MaxRerunTrades)

RerunLiveWorlds ==
    {w \in LiveWorlds : w.trades.kind = "return" => w.trades.value \in RerunTradeLists}

RerunWorlds(use_sample_data) ==
    IF use_sample_data THEN SampleWorlds ELSE RerunLiveWorlds

\* the record of one call of an external service and how it ended
Call(fn, arg, outcome) ==
    [fn |-> fn, arg |-> arg, raised |-> outcome.kind = "raise",
     msg |-> IF outcome.kind = "raise" THEN outcome.msg ELSE ""]

UniqueSymbols(trades) == {trades[i].symbol : i \in DOMAIN trades}

\* one iteration of "for symbol in unique_symbols: try ... except ..."
CandleStep(acc, symbol, outcome, at) ==
    IF outcome.kind = "return"
    THEN [acc EXCEPT !.market_data = (symbol :> Candles(symbol, at)) @@ @,
                     !.calls = Append(@, Call("get_candlestick_data", symbol, outcome))]
    ELSE [acc EXCEPT !.notes = Append(@, Note("error",
                                 <<"Error fetching market data from Databento", symbol>>,
                                 outcome.msg)),
                     !.calls = Append(@, Call("get_candlestick_data", symbol, outcome))]

\* a loop with the try around it instead of inside it: the first failure ends it
RECURSIVE CandleLoopAbort(_, _, _, _)
CandleLoopAbort(acc, order, w, at) ==
    IF order = <<>> THEN acc
    ELSE IF w.candle[Head(order)].kind = "raise"
    THEN CandleStep(acc, Head(order), w.candle[Head(order)], at)
    ELSE CandleLoopAbort(CandleStep(acc, Head(order), w.candle[Head(order)], at),
                         Tail(order), w, at)

RECURSIVE CandleLoop(_, _, _, _)
CandleLoop(acc, order, w, at) ==
    IF order = <<>> THEN acc
    ELSE CandleLoop(CandleStep(acc, Head(order), w.candle[Head(order)], at),
                    Tail(order), w, at)

\* lines 45-57: the use_sample_data branch
LoadSample(w) ==
    LET trades == GenerateTrades(NumSampleTrades)
        base == [trades |-> trades,
                 journals |-> GenerateJournals(trades),
                 calls |-> <<>>,
                 escaped |-> None]
    IN  IF w.csvExists
        THEN base @@ [market_data |-> ("MES" :> SampleCsv),
                      notes |-> <<Note("info", "Loading sample data...", "")>>]
        ELSE base @@ [market_data |-> EmptyDict,
                      notes |-> <<Note("info", "Loading sample data...", ""),
                                  Note("warning", "Sample market data not found", "")>>]

\* a fetch with no handler around fetch_journals: its exception leaves load_data
FetchSupabaseLeaky(supabase_client, w) ==
    LET init == [trades |-> <<>>, journals |-> <<>>, market_data |-> EmptyDict]
    IN  IF supabase_client = None
        THEN init @@ [calls |-> <<>>, escaped |-> None,
                      notes |-> <<Note("warning",
                          "Supabase client not configured. Cannot fetch live data.", "")>>]
        ELSE IF w.trades.kind = "raise"
        THEN init @@ [calls |-> <<Call("fetch_trades", "", w.trades)>>,
                      escaped |-> None,
                      notes |-> <<Note("error", "Error fetching data from Supabase",
                                       w.trades.msg)>>]
        ELSE IF w.journals.kind = "raise"
        THEN [init EXCEPT !.trades = w.trades.value]
             @@ [calls |-> <<Call("fetch_trades", "", w.trades),
                             Call("fetch_journals", "", w.journals)>>,
                 escaped |-> w.journals.msg,
                 notes |-> <<>>]
        ELSE [init EXCEPT !.trades = w.trades.value, !.journals = w.journals.value]
             @@ [calls |-> <<Call("fetch_trades", "", w.trades),
                             Call("fetch_journals", "", w.journals)>>,
                 escaped |-> None,
                 notes |-> <<Note("success", "Data fetched from Supabase.", "")>>]

\* a fetch that assigns trades and journals together, after both calls returned
FetchSupabaseAllOrNothing(supabase_client, w) ==
    LET init == [trades |-> <<>>, journals |-> <<>>, market_data |-> EmptyDict,
                 escaped |-> None]
    IN  IF supabase_client = None
        THEN init @@ [calls |-> <<>>,
                      notes |-> <<Note("warning",
                          "Supabase client not configured. Cannot fetch live data.", "")>>]
        ELSE IF w.trades.kind = "raise"
        THEN init @@ [calls |-> <<Call("fetch_trades", "", w.trades)>>,
                      notes |-> <<Note("error", "Error fetching data from Supabase",
                                       w.trades.msg)>>]
        ELSE IF w.journals.kind = "raise"
        THEN init @@ [calls |-> <<Call("fetch_trades", "", w.trades),
                                  Call("fetch_journals", "", w.journals)>>,
                      notes |-> <<Note("error", "Error fetching data from Supabase",
                                       w.journals.msg)>>]
        ELSE [init EXCEPT !.trades = w.trades.value, !.journals = w.journals.value]
             @@ [calls |-> <<Call("fetch_trades", "", w.trades),
                             Call("fetch_journals", "", w.journals)>>,
                 notes |-> <<Note("success", "Data fetched from Supabase.", "")>>]

\* lines 60-68: the Supabase fetch
FetchSupabase(supabase_client, w) ==
    LET init == [trades |-> <<>>, journals |-> <<>>, market_data |-> EmptyDict,
                 escaped |-> None]
    IN  IF supabase_client = None
        THEN init @@ [calls |-> <<>>,
                      notes |-> <<Note("warning",
                          "Supabase client not configured. Cannot fetch live data.", "")>>]
        ELSE IF w.trades.kind = "raise"
        THEN init @@ [calls |-> <<Call("fetch_trades", "", w.trades)>>,
                      notes |-> <<Note("error", "Error fetching data from Supabase",
                                       w.trades.msg)>>]
        ELSE IF w.journals.kind = "raise"
        THEN [init EXCEPT !.trades = w.trades.value]
             @@ [calls |-> <<Call("fetch_trades", "", w.trades),
                             Call("fetch_journals", "", w.journals)>>,
                 notes |-> <<Note("error", "Error fetching data from Supabase",
                                  w.journals.msg)>>]
        ELSE [init EXCEPT !.trades = w.trades.value, !.journals = w.journals.value]
             @@ [calls |-> <<Call("fetch_trades", "", w.trades),
                             Call("fetch_journals", "", w.journals)>>,
                 notes |-> <<Note("success", "Data fetched from Supabase.", "")>>]

\* lines 70-81: market data for the symbols of the trades
FetchMarketData(acc, databento_client, w, at) ==
    IF databento_client # None /\ acc.trades # <<>>
    THEN LET unique_symbols == UniqueSymbols(acc.trades)
         IN  CandleLoop(acc, SelectSeq(w.order, LAMBDA s : s \in unique_symbols), w, at)
    ELSE acc

\* a body that takes the live branch whatever the flag
LoadDataBodyLiveOnly(use_sample_data, cl, w, at) ==
    FetchMarketData(FetchSupabase(cl.supabase, w), cl.databento, w, at)

\* the body of load_data(use_sample_data); the result carries, beside the returned
\* triple, the notifications emitted, the external calls made and the exception
\* that left the function (None: it returned)
LoadDataBody(use_sample_data, cl, w, at) ==
    IF use_sample_data
    THEN LoadSample(w)
    ELSE FetchMarketData(FetchSupabase(cl.supabase, w), cl.databento, w, at)

Triple(r) == <<r.trades, r.journals, r.market_data>>

-----------------------------------------------------------------------------
(* app.py: the caches of the two decorators *)

NoEntry == [present |-> FALSE]

\* @st.cache_resource: the body runs when nothing is held yet
ResourceMiss(held) == ~held.present

\* the clients of this script run: the held ones, or the ones init_clients builds
ClientsOf(held, c) == IF ResourceMiss(held) THEN InitClientsBody(c) ELSE held.value

\* a cache that never serves a stored entry
CacheHitNever(c, key, t) == FALSE

\* @st.cache_data(ttl=3600): an entry stored at storedAt serves the calls made
\* before storedAt + ttl
CacheHit(c, key, t) == c[key].present /\ t - c[key].storedAt < TTL

\* a store that keeps only the results of executions in which no call raised
CacheStoreCleanOnly(c, key, res, t) ==
    IF \E i \in DOMAIN res.calls : res.calls[i].raised
    THEN c
    ELSE [c EXCEPT ![key] = [present |-> TRUE, value |-> Triple(res),
                             notes |-> res.notes, storedAt |-> t]]

\* what is stored: the returned value and, for replay, the notifications the
\* body emitted
CacheStore(c, key, res, t) ==
    [c EXCEPT ![key] = [present |-> TRUE, value |-> Triple(res),
                        notes |-> res.notes, storedAt |-> t]]

-----------------------------------------------------------------------------
(* app.py: main *)

Pages == {"Dashboard", "Trade Analysis", "Interactive Charts", "AI Insights"}

IsAnyApiConfigured(c) == c.supabase \/ c.topstep \/ c.databento \/ c.openai

\* st.checkbox(..., value=not is_any_api_configured): the default on the first run
\* of the session, afterwards whatever the user has ticked
CheckboxValues(c, r) == IF r.started THEN BOOLEAN ELSE {~IsAnyApiConfigured(c)}

\* lines 94-99: the configuration check, which reports and goes on
ValidateNotes(c) ==
    IF ConfigValidate(c) # {}
    THEN <<Note("error", "Missing required configuration", ConfigValidate(c)),
           Note("info", "Please set up your .env file", "")>>
    ELSE <<>>

\* lines 129-142: which of main's locals the analytics, the engine and the
\* renderer of the selected page are handed
Render(page) ==
    [page |-> page,
     analytics |-> <<"trades">>,
     engine |-> <<"trades", "journals", "market_data.get(MES)">>,
     args |-> CASE page = "Dashboard" -> <<"trade_analytics", "trades", "journals">>
                [] page = "Trade Analysis" -> <<"trade_analytics", "trades", "journals">>
                [] page = "Interactive Charts" -> <<"trades", "journals", "market_data">>
                [] page = "AI Insights" ->
                       <<"predictive_engine", "nlp_processor", "trades", "journals",
                         "market_data">>
                [] OTHER -> <<>>]

NotRendered == [page |-> None]

NoRun == [started |-> FALSE]

\* the record of one script run: the checkbox, the clock, whether load_data's body
\* ran, the triple main received, the external calls made, the notifications
\* shown and what was rendered
ScriptRun(use_sample_data, executed, triple, calls, notes, rendered) ==
    [started |-> TRUE,
     use_sample_data |-> use_sample_data,
     at |-> now,
     executed |-> executed,
     triple |-> triple,
     calls |-> calls,
     notes |-> ValidateNotes(cfg) \o notes,
     rendered |-> rendered]

\* one script run whose load_data call is served from the cache: the stored
\* value is returned and the notifications recorded with it are replayed
RunCached(use_sample_data, selected_page) ==
    /\ use_sample_data \in CheckboxValues(cfg, run)
    /\ CacheHit(cache, use_sample_data, now)
    /\ clients' = [present |-> TRUE, value |-> ClientsOf(clients, cfg)]
    /\ constructions' = IF ResourceMiss(clients) THEN constructions + 1
                        ELSE constructions
    /\ run' = ScriptRun(use_sample_data, FALSE, cache[use_sample_data].value, <<>>,
                        cache[use_sample_data].notes, Render(selected_page))
    /\ UNCHANGED <<cfg, now, cache, lastExec>>

AnyRaised(calls) == \E i \in DOMAIN calls : calls[i].raised

\* the history kept of the executions of load_data's body for one argument: the
\* latest one (when, what it returned, the calls it made) and, of the one before
\* it, when it ran and whether one of its calls raised
Execution(before, res, t) ==
    [present |-> TRUE, at |-> t, triple |-> Triple(res), calls |-> res.calls,
     prev |-> IF before.present
              THEN [present |-> TRUE, at |-> before.at, failed |-> AnyRaised(before.calls)]
              ELSE NoEntry]

\* one script run whose load_data call executes the body and stores its result
RunCompute(use_sample_data, selected_page, w) ==
    LET cl == ClientsOf(clients, cfg)
        res == LoadDataBody(use_sample_data, cl, w, now)
    IN  /\ use_sample_data \in CheckboxValues(cfg, run)
        /\ ~CacheHit(cache, use_sample_data, now)
        /\ clients' = [present |-> TRUE, value |-> cl]
        /\ constructions' = IF ResourceMiss(clients) THEN constructions + 1
                            ELSE constructions
        /\ lastExec' = [lastExec EXCEPT ![use_sample_data] =
                            Execution(lastExec[use_sample_data], res, now)]
        /\ IF res.escaped = None
           THEN /\ cache' = CacheStore(cache, use_sample_data, res, now)
                /\ run' = ScriptRun(use_sample_data, TRUE, Triple(res), res.calls,
                                    res.notes, Render(selected_page))
           ELSE \* the exception ends the script run: nothing is stored or rendered
                /\ cache' = cache
                /\ run' = ScriptRun(use_sample_data, TRUE, <<>>, res.calls,
                                    res.notes, NotRendered)
        /\ UNCHANGED <<cfg, now>>

\* time passes between two script runs
Tick ==
    /\ now + TickStep <= MaxClock
    /\ now' = now + TickStep
    /\ UNCHANGED <<cfg, clients, constructions, cache, lastExec, run>>

Configs == [supabase : BOOLEAN, topstep : BOOLEAN, databento : BOOLEAN, openai : BOOLEAN]

InitApp ==
    /\ cfg \in Configs
    /\ clients = NoEntry
    /\ constructions = 0
    /\ now = 0
    /\ cache = [k \in BOOLEAN |-> NoEntry]
    /\ lastExec = [k \in BOOLEAN |-> NoEntry]
    /\ run = NoRun

NextApp ==
    \/ \E u \in {b \in CheckboxValues(cfg, run) : CacheHit(cache, b, now)} :
          \E p \in Pages : RunCached(u, p)
    \/ \E u \in {b \in CheckboxValues(cfg, run) : ~CacheHit(cache, b, now)} :
          \E w \in RerunWorlds(u), p \in Pages : RunCompute(u, p, w)
    \/ Tick

AuthIdle ==
    /\ env = None
    /\ session = None
    /\ authLog = None
    /\ view = None

LoadIdle == load = None

Init == InitApp /\ LoadIdle /\ AuthIdle

Next == NextApp /\ UNCHANGED load /\ UNCHANGED authVars

\* app.py as a sequence of script runs
Spec == Init /\ [][Next]_vars

-----------------------------------------------------------------------------
(* app.py: load_data's body as a function of its inputs *)

AppIdle ==
    /\ cfg = None
    /\ clients = NoEntry
    /\ constructions = 0
    /\ now = 0
    /\ cache = None
    /\ lastExec = None
    /\ run = NoRun

InitLoad ==
    /\ \E c \in Configs, u \in BOOLEAN :
          \E w \in Worlds(u) :
             load = [pc |-> "called", use_sample_data |-> u,
                     clients |-> InitClientsBody(c), world |-> w]
    /\ AppIdle
    /\ AuthIdle

ExecLoad ==
    /\ load.pc = "called"
    /\ load' = [pc |-> "returned", use_sample_data |-> load.use_sample_data,
                clients |-> load.clients, world |-> load.world,
                res |-> LoadDataBody(load.use_sample_data, load.clients,
                                     load.world, now)]
    /\ UNCHANGED appVars
    /\ UNCHANGED authVars

SpecLoad == InitLoad /\ [][ExecLoad]_vars


-----------------------------------------------------------------------------
(* streamlit_app.py: configuration, lines 16-47 *)

Keys == {"SUPABASE_URL", "SUPABASE_KEY", "DATABENTO_API_KEY"}

\* the order in which lines 22-24 index st.secrets
KeyOrder == <<"SUPABASE_URL", "SUPABASE_KEY", "DATABENTO_API_KEY">>

\* The process's configuration: whether a secrets file exists and the keys it
\* holds, and the keys the environment (.env loaded by load_dotenv) holds
Envs ==
    {[secrets |-> [exists |-> TRUE, keys |-> ks], environ |-> es] :
        ks \in SUBSET Keys, es \in SUBSET Keys}
    \cup {[secrets |-> [exists |-> FALSE, keys |-> {}], environ |-> es] :
        es \in SUBSET Keys}

\* st.secrets[key]: FileNotFoundError without a secrets file, KeyError for a key
\* the file does not hold, the value otherwise
SecretsLookup(e, key) ==
    IF ~e.secrets.exists THEN Raised("FileNotFoundError")
    ELSE IF key \notin e.secrets.keys THEN Raised("KeyError")
    ELSE Returned(key)

\* os.getenv(key): the value, or None
Getenv(e, key) == IF key \in e.environ THEN key ELSE None

\* lines 21-29: the three lookups in a try whose handler takes FileNotFoundError
\* only; any other exception leaves the script
ReadConfig(e) ==
    LET failing == {i \in DOMAIN KeyOrder : SecretsLookup(e, KeyOrder[i]).kind = "raise"}
        first == CHOOSE i \in failing : \A j \in failing : i <= j
    IN  IF failing = {}
        THEN [escaped |-> None,
              supabase_url |-> SecretsLookup(e, "SUPABASE_URL").value,
              supabase_key |-> SecretsLookup(e, "SUPABASE_KEY").value,
              databento_api_key |-> SecretsLookup(e, "DATABENTO_API_KEY").value]
        ELSE IF SecretsLookup(e, KeyOrder[first]).msg = "FileNotFoundError"
        THEN [escaped |-> None,
              supabase_url |-> Getenv(e, "SUPABASE_URL"),
              supabase_key |-> Getenv(e, "SUPABASE_KEY"),
              databento_api_key |-> Getenv(e, "DATABENTO_API_KEY")]
        ELSE [escaped |-> SecretsLookup(e, KeyOrder[first]).msg,
              supabase_url |-> None,
              supabase_key |-> None,
              databento_api_key |-> None]

\* init_supabase_client()
InitSupabaseClient(c) ==
    IF c.supabase_url # None /\ c.supabase_key # None THEN "SupabaseClient" ELSE None

\* init_databento_client()
InitDatabentoClient(c) ==
    IF c.databento_api_key # None THEN "DatabentoClient" ELSE None

-----------------------------------------------------------------------------
(* streamlit_app.py: sign_up, sign_in, sign_out, lines 49-79 *)

Emails == {"ann@example.org", "bob@example.org"}
Passwords == {"hunter2"}

User(email) == [email |-> email]

\* what the auth service does with one request
AuthOutcomes(email) == {Returned([user |-> User(email)])} \cup {Raised(m) : m \in ExcMsgs}

\* Python truthiness of the error string a call returns
Truthy(x) == x # None /\ x # ""

HasUser(sess) == "user" \in DOMAIN sess

NotInitialized ==
    Note("error", "Supabase client is not initialized. Check your API keys.", "")

AuthCall(fn, email, password, outcome) ==
    [fn |-> fn, email |-> email, password |-> password,
     raised |-> outcome.kind = "raise"]

\* sign_up(email, password): the session afterwards, the (user, error) pair
\* returned, the notifications and the auth-service calls
SignUp(sess, supabase, email, password, outcome) ==
    IF supabase = None
    THEN [session |-> sess, user |-> None, error |-> "Supabase client not initialized.",
          notes |-> <<NotInitialized>>, calls |-> <<>>]
    ELSE IF outcome.kind = "return"
    THEN [session |-> sess, user |-> outcome.value.user, error |-> None,
          notes |-> <<Note("success", "Sign-up successful!", "")>>,
          calls |-> <<AuthCall("sign_up", email, password, outcome)>>]
    ELSE [session |-> sess, user |-> None, error |-> outcome.msg,
          notes |-> <<>>,
          calls |-> <<AuthCall("sign_up", email, password, outcome)>>]

\* a sign_in that stores its result before it knows the call succeeded
SignInEager(sess, supabase, email, password, outcome) ==
    IF supabase = None
    THEN [session |-> sess, user |-> None, error |-> "Supabase client not initialized.",
          notes |-> <<NotInitialized>>, calls |-> <<>>]
    ELSE IF outcome.kind = "return"
    THEN [session |-> ("user" :> outcome.value.user) @@ sess,
          user |-> outcome.value.user, error |-> None,
          notes |-> <<Note("success", "Signed in successfully!", "")>>,
          calls |-> <<AuthCall("sign_in_with_password", email, password, outcome)>>]
    ELSE [session |-> ("user" :> None) @@ sess, user |-> None, error |-> outcome.msg,
          notes |-> <<>>,
          calls |-> <<AuthCall("sign_in_with_password", email, password, outcome)>>]

\* sign_in(email, password)
SignIn(sess, supabase, email, password, outcome) ==
    IF supabase = None
    THEN [session |-> sess, user |-> None, error |-> "Supabase client not initialized.",
          notes |-> <<NotInitialized>>, calls |-> <<>>]
    ELSE IF outcome.kind = "return"
    THEN [session |-> ("user" :> outcome.value.user) @@ sess,
          user |-> outcome.value.user, error |-> None,
          notes |-> <<Note("success", "Signed in successfully!", "")>>,
          calls |-> <<AuthCall("sign_in_with_password", email, password, outcome)>>]
    ELSE [session |-> sess, user |-> None, error |-> outcome.msg,
          notes |-> <<>>,
          calls |-> <<AuthCall("sign_in_with_password", email, password, outcome)>>]

\* sign_out()
SignOut(sess) ==
    [session |-> [k \in DOMAIN sess \ {"user"} |-> sess[k]],
     notes |-> <<Note("success", "You have been signed out.", "")>>]

\* The history of the auth calls, kept beside the session: whether a sign_in has
\* succeeded with no sign_out after the latest one that did, and the user it gave
NoHistory == [signedIn |-> FALSE]

AfterSignIn(h, supabase, outcome) ==
    IF supabase # None /\ outcome.kind = "return"
    THEN [signedIn |-> TRUE, user |-> outcome.value.user]
    ELSE h

AfterSignOut(h) == NoHistory

-----------------------------------------------------------------------------
(* streamlit_app.py: the three functions called in any order *)

NoCall == [fn |-> "none"]

CallRecord(fn, before, r) ==
    [fn |-> fn, before |-> before, user |-> r.user, error |-> r.error,
     notes |-> r.notes, calls |-> r.calls]

CallSignUp(email, password, outcome) ==
    LET r == SignUp(session, InitSupabaseClient(ReadConfig(env)), email, password, outcome)
    IN  /\ session' = r.session
        /\ authLog' = authLog
        /\ view' = CallRecord("sign_up", session, r)
        /\ UNCHANGED env

CallSignIn(email, password, outcome) ==
    LET supabase == InitSupabaseClient(ReadConfig(env))
        r == SignIn(session, supabase, email, password, outcome)
    IN  /\ session' = r.session
        /\ authLog' = AfterSignIn(authLog, supabase, outcome)
        /\ view' = CallRecord("sign_in", session, r)
        /\ UNCHANGED env

CallSignOut ==
    LET r == SignOut(session)
    IN  /\ session' = r.session
        /\ authLog' = AfterSignOut(authLog)
        /\ view' = [fn |-> "sign_out", before |-> session, user |-> None,
                    error |-> None, notes |-> r.notes, calls |-> <<>>]
        /\ UNCHANGED env

\* the functions exist once the script has run past its configuration
InitCalls ==
    /\ env \in {e \in Envs : ReadConfig(e).escaped = None}
    /\ session = EmptyDict
    /\ authLog = NoHistory
    /\ view = NoCall
    /\ AppIdle
    /\ LoadIdle

NextCalls ==
    \/ \E e \in Emails, p \in Passwords : \E o \in AuthOutcomes(e) : CallSignUp(e, p, o)
    \/ \E e \in Emails, p \in Passwords : \E o \in AuthOutcomes(e) : CallSignIn(e, p, o)
    \/ CallSignOut

SpecCalls == InitCalls /\ [][NextCalls /\ UNCHANGED appVars /\ UNCHANGED load]_vars

-----------------------------------------------------------------------------
(* streamlit_app.py: the script run, lines 81-139 *)

NoSubmit == [present |-> FALSE]

Submit(choice, email, password, outcome) ==
    [present |-> TRUE, choice |-> choice, email |-> email, password |-> password,
     outcome |-> outcome]

DatabentoOutcomes == {Returned("df")} \cup {Raised(m) : m \in ExcMsgs}

NoClick == [present |-> FALSE]

\* lines 85-110: the authentication form and the handling of its submission
AuthView(sess, supabase, submit) ==
    LET idle == [rendered |-> "auth", session |-> sess, rerun |-> FALSE,
                 notes |-> <<Note("info", "This is the authentication portal", "")>>,
                 authCalls |-> <<>>, dbCalls |-> <<>>, fetchButton |-> FALSE,
                 user |-> None, error |-> None]
    IN  IF ~submit.present THEN idle
        ELSE IF submit.choice = "Sign Up"
        THEN LET r == SignUp(sess, supabase, submit.email, submit.password, submit.outcome)
             IN  [idle EXCEPT
                    !.session = r.session, !.authCalls = r.calls,
                    !.user = r.user, !.error = r.error,
                    !.notes = @ \o r.notes \o
                        (IF Truthy(r.error)
                         THEN <<Note("error", "Sign-up failed", r.error)>> ELSE <<>>)]
        ELSE LET r == SignIn(sess, supabase, submit.email, submit.password, submit.outcome)
             IN  [idle EXCEPT
                    !.session = r.session, !.authCalls = r.calls,
                    !.user = r.user, !.error = r.error,
                    !.rerun = ~Truthy(r.error),
                    !.notes = @ \o r.notes \o
                        (IF Truthy(r.error)
                         THEN <<Note("error", "Sign-in failed", r.error)>> ELSE <<>>)]

\* lines 112-139: the logged-in view
Dashboard(sess, db_client, click) ==
    LET base == [rendered |-> "dashboard", session |-> sess, rerun |-> FALSE,
                 notes |-> <<Note("header", "Welcome", sess["user"].email)>>,
                 authCalls |-> <<>>, dbCalls |-> <<>>,
                 fetchButton |-> db_client # None,
                 user |-> None, error |-> None]
    IN  IF db_client = None
        THEN [base EXCEPT !.notes = Append(@, Note("warning",
                 "Databento client is not initialized. Please check your API key.", ""))]
        ELSE IF ~click.present THEN base
        ELSE IF click.outcome.kind = "return"
        THEN [base EXCEPT !.dbCalls = <<"get_range">>,
                          !.notes = Append(@, Note("success",
                                                    "Successfully fetched data!", ""))]
        ELSE [base EXCEPT !.dbCalls = <<"get_range">>,
                          !.notes = Append(@, Note("error",
                              "Failed to fetch data from Databento", click.outcome.msg))]

\* one run of the script from its first line: the configuration, the clients,
\* then one of the two views; an exception of the configuration ends the run
ScriptBody(e, sess, submit, click) ==
    LET c == ReadConfig(e)
    IN  IF c.escaped # None
        THEN [rendered |-> "none", session |-> sess, rerun |-> FALSE, notes |-> <<>>,
              authCalls |-> <<>>, dbCalls |-> <<>>, fetchButton |-> FALSE,
              user |-> None, error |-> None]
        ELSE IF ~HasUser(sess)
        THEN AuthView(sess, InitSupabaseClient(c), submit)
        ELSE Dashboard(sess, InitDatabentoClient(c), click)

\* the record of one script run: what triggered it, whether the configuration
\* raised, whether 'user' was in the session when the script started, and what
\* the script did
ViewOf(e, interaction, sess, submit, click, extraNotes) ==
    LET b == ScriptBody(e, sess, submit, click)
    IN  [started |-> TRUE,
         interaction |-> interaction,
         escaped |-> ReadConfig(e).escaped,
         userAtStart |-> HasUser(sess),
         submit |-> submit,
         rendered |-> b.rendered,
         rerun |-> b.rerun,
         notes |-> extraNotes \o b.notes,
         authCalls |-> b.authCalls,
         dbCalls |-> b.dbCalls,
         fetchButton |-> b.fetchButton,
         user |-> b.user,
         error |-> b.error]

NoView == [started |-> FALSE, rendered |-> "none", rerun |-> FALSE,
           fetchButton |-> FALSE]

\* a run nothing in the form or the dashboard triggered: the first one, the one
\* st.rerun() asks for, a change of the radio
RunPlain ==
    /\ session' = ScriptBody(env, session, NoSubmit, NoClick).session
    /\ view' = ViewOf(env, "none", session, NoSubmit, NoClick, <<>>)
    /\ UNCHANGED <<env, authLog>>

\* the form of the previous run is submitted
SubmitAuth(choice, email, password, outcome) ==
    LET submit == Submit(choice, email, password, outcome)
        supabase == InitSupabaseClient(ReadConfig(env))
    IN  /\ view.rendered = "auth"
        /\ ~view.rerun
        /\ session' = ScriptBody(env, session, submit, NoClick).session
        /\ authLog' = IF choice = "Sign In" /\ ReadConfig(env).escaped = None
                         /\ ~HasUser(session)
                      THEN AfterSignIn(authLog, supabase, outcome)
                      ELSE authLog
        /\ view' = ViewOf(env, "submit", session, submit, NoClick, <<>>)
        /\ UNCHANGED env

\* the Sign Out button of the previous run is clicked: the callback runs, then
\* the script
ClickSignOut ==
    LET out == SignOut(session)
    IN  /\ view.rendered = "dashboard"
        /\ ~view.rerun
        /\ session' = ScriptBody(env, out.session, NoSubmit, NoClick).session
        /\ authLog' = AfterSignOut(authLog)
        /\ view' = ViewOf(env, "sign_out", out.session, NoSubmit, NoClick, out.notes)
        /\ UNCHANGED env

\* the Fetch Sample Data button of the previous run is clicked
ClickFetch(outcome) ==
    LET click == [present |-> TRUE, outcome |-> outcome]
    IN  /\ view.rendered = "dashboard"
        /\ view.fetchButton
        /\ ~view.rerun
        /\ session' = ScriptBody(env, session, NoSubmit, click).session
        /\ view' = ViewOf(env, "fetch", session, NoSubmit, click, <<>>)
        /\ UNCHANGED <<env, authLog>>

InitAuth ==
    /\ env \in Envs
    /\ session = EmptyDict
    /\ authLog = NoHistory
    /\ view = NoView
    /\ AppIdle
    /\ LoadIdle

NextAuth ==
    \/ RunPlain
    \/ \E c \in {"Sign In", "Sign Up"}, e \in Emails, p \in Passwords :
          \E o \in AuthOutcomes(e) : SubmitAuth(c, e, p, o)
    \/ ClickSignOut
    \/ \E o \in DatabentoOutcomes : ClickFetch(o)

SpecAuth == InitAuth /\ [][NextAuth /\ UNCHANGED appVars /\ UNCHANGED load]_vars

-----------------------------------------------------------------------------
(* Properties of load_data's body (SpecLoad) *)

RaisedCalls(calls) == SelectSeq(calls, LAMBDA c : c.raised)
Errors(notes)   == SelectSeq(notes, LAMBDA n : n.level = "error")
CandleCalls(calls) == SelectSeq(calls, LAMBDA c : c.fn = "get_candlestick_data")
HasNote(notes, level, text) ==
    \E i \in DOMAIN notes : notes[i].level = level /\ notes[i].text = text

LiveReturned == load.pc = "returned" /\ ~load.use_sample_data

\* C1: in live mode, whatever fetch_trades, fetch_journals and each
\* get_candlestick_data do (return or raise), no exception leaves load_data; the
\* error notifications are, one for one and in order, the exceptions raised, each
\* carrying the message of its exception and naming its service; and a
\* (trades, journals, market_data) triple is returned.
C1_NoExceptionEscapes ==
    LiveReturned =>
        LET res == load.res
            raisedCalls == RaisedCalls(res.calls)
            errors == Errors(res.notes)
        IN  /\ res.escaped = None
            /\ Len(errors) = Len(raisedCalls)
            /\ \A i \in DOMAIN errors :
                  /\ errors[i].detail = raisedCalls[i].msg
                  /\ errors[i].text =
                        IF raisedCalls[i].fn = "get_candlestick_data"
                        THEN <<"Error fetching market data from Databento",
                               raisedCalls[i].arg>>
                        ELSE "Error fetching data from Supabase"
            /\ load.clients.supabase # None /\ load.world.trades.kind = "raise"
                  => \E i \in DOMAIN raisedCalls : raisedCalls[i].fn = "fetch_trades"
            /\ DOMAIN res.trades = 1..Len(res.trades)
            /\ DOMAIN res.journals = 1..Len(res.journals)
            /\ DOMAIN res.market_data \subseteq Symbols

\* a live execution in which fetch_journals and a get_candlestick_data call
\* both raised, with different messages
C1_Witness ==
    /\ LiveReturned
    /\ \E i, j \in DOMAIN load.res.calls :
          /\ load.res.calls[i].fn = "fetch_journals"
          /\ load.res.calls[i].raised
          /\ load.res.calls[j].fn = "get_candlestick_data"
          /\ load.res.calls[j].raised
          /\ load.res.calls[i].msg # load.res.calls[j].msg
    /\ Len(Errors(load.res.notes)) = 2

\* C5: in one live execution with a Databento client and a non-empty trade list,
\* get_candlestick_data is called exactly once for each distinct symbol of the
\* trades and for nothing else, whatever the other symbols' calls did, and the
\* keys of market_data are exactly the symbols whose call returned.
C5_OncePerSymbol ==
    (LiveReturned /\ load.clients.databento # None /\ load.res.trades # <<>>) =>
        LET res == load.res
            cc == CandleCalls(res.calls)
            syms == UniqueSymbols(res.trades)
        IN  /\ \A s \in syms : Cardinality({i \in DOMAIN cc : cc[i].arg = s}) = 1
            /\ \A i \in DOMAIN cc : cc[i].arg \in syms
            /\ DOMAIN res.market_data =
                  {s \in syms : load.world.candle[s].kind = "return"}

\* two trades of two symbols: the call made first raised, the second one was
\* still made and returned
C5_Witness ==
    /\ LiveReturned
    /\ load.clients.databento # None
    /\ Cardinality(UniqueSymbols(load.res.trades)) = 2
    /\ LET cc == CandleCalls(load.res.calls)
       IN  Len(cc) = 2 /\ cc[1].raised /\ ~cc[2].raised
    /\ Cardinality(DOMAIN load.res.market_data) = 1

\* C8: in live mode with a Supabase client, (a) if fetch_trades returns and
\* fetch_journals raises, the trades returned are the fetched ones, the journals
\* are the empty list, "Data fetched from Supabase." is not emitted, and the
\* market data of the symbols of those trades is requested as it would be
\* otherwise (from the Databento client, when there is one); (b) if fetch_trades
\* raises, trades and journals are empty, fetch_journals is not called and no
\* Databento call is made.
C8_PartialData ==
    (LiveReturned /\ load.clients.supabase # None) =>
        LET res == load.res
            w == load.world
            requested == {CandleCalls(res.calls)[i].arg :
                             i \in DOMAIN CandleCalls(res.calls)}
        IN  /\ (w.trades.kind = "return" /\ w.journals.kind = "raise") =>
                  /\ res.trades = w.trades.value
                  /\ res.journals = <<>>
                  /\ ~HasNote(res.notes, "success", "Data fetched from Supabase.")
                  /\ requested = IF load.clients.databento # None
                                 THEN UniqueSymbols(w.trades.value) ELSE {}
            /\ w.trades.kind = "raise" =>
                  /\ res.trades = <<>>
                  /\ res.journals = <<>>
                  /\ \A i \in DOMAIN res.calls : res.calls[i].fn = "fetch_trades"

\* fetch_trades returned two trades, fetch_journals raised, and market data was
\* requested for the symbol of the trades
C8_Witness ==
    /\ LiveReturned
    /\ load.clients.supabase # None
    /\ load.world.trades.kind = "return"
    /\ load.world.journals.kind = "raise"
    /\ Len(load.res.trades) = 2
    /\ load.res.journals = <<>>
    /\ Len(CandleCalls(load.res.calls)) >= 1

-----------------------------------------------------------------------------
(* Properties of the script runs of app.py (Spec) *)

SampleTrades   == GenerateTrades(NumSampleTrades)
SampleJournals == GenerateJournals(SampleTrades)

NoSupabaseRun == run.started /\ clients.value.supabase = None

ShowsWarning == \E i \in DOMAIN run.notes : run.notes[i].level = "warning"

\* C2 as stated: in every run in which the Supabase client is not configured, the
\* trades and journals handed on are the generated sample ones and a warning is
\* shown.
C2_SampleWheneverUnconfigured ==
    NoSupabaseRun =>
        /\ run.triple[1] = SampleTrades
        /\ run.triple[2] = SampleJournals
        /\ ShowsWarning

\* C2 as amended: in every run in which the Supabase client is not configured,
\* if the "Use Sample Data" checkbox is ticked, the trades and journals handed to
\* the analytics and the page renderer are the ones SampleDataGenerator produced;
\* if it is not ticked, they are empty lists and the warning "Supabase client not
\* configured. Cannot fetch live data." is shown.
C2_SampleWhenTicked ==
    NoSupabaseRun =>
        /\ run.rendered # NotRendered
        /\ "trades" \in Range(run.rendered.analytics)
        /\ {"trades", "journals"} \subseteq Range(run.rendered.args)
        /\ IF run.use_sample_data
           THEN /\ run.triple[1] = SampleTrades
                /\ run.triple[2] = SampleJournals
                /\ Len(run.triple[1]) > 0
           ELSE /\ run.triple[1] = <<>>
                /\ run.triple[2] = <<>>
                /\ HasNote(run.notes, "warning",
                      "Supabase client not configured. Cannot fetch live data.")

\* without a Supabase client: a run with the checkbox unticked, served from the
\* cache, after a run with the checkbox ticked computed the sample data
C2_Witness ==
    /\ NoSupabaseRun
    /\ ~run.use_sample_data
    /\ ~run.executed
    /\ run.triple[1] = <<>>
    /\ lastExec[TRUE].present
    /\ ShowsWarning

\* C6 (app.py): a service without keys has a None client and is never called,
\* and the run goes on to render the selected page.
C6_AppDisabledNotFatal ==
    run.started =>
        /\ clients.value.supabase = None <=> ~cfg.supabase
        /\ clients.value.databento = None <=> ~cfg.databento
        /\ ~cfg.supabase =>
              \A i \in DOMAIN run.calls :
                 run.calls[i].fn \notin {"fetch_trades", "fetch_journals"}
        /\ ~cfg.databento => CandleCalls(run.calls) = <<>>
        /\ run.rendered # NotRendered
        /\ run.rendered.page \in Pages

\* C4: for each value of use_sample_data, two executions of load_data's body are
\* at least the TTL apart; a run inside the window of the latest execution
\* received exactly what that execution returned, and made no external call
\* unless it is that execution; init_clients' body ran at most once.
C4_Memoized ==
    /\ constructions <= 1
    /\ \A k \in BOOLEAN :
          (lastExec[k].present /\ lastExec[k].prev.present) =>
              lastExec[k].at - lastExec[k].prev.at >= TTL
    /\ run.started =>
          LET e == lastExec[run.use_sample_data]
          IN  /\ e.present
              /\ e.at <= run.at
              /\ run.at - e.at < TTL =>
                    /\ run.triple = e.triple
                    /\ run.executed => (run.at = e.at /\ run.calls = e.calls)
                    /\ ~run.executed => run.calls = <<>>

\* a rerun served from the cache later than the execution it is served from,
\* in live mode with calls that were made by that execution
C4_Witness ==
    /\ run.started
    /\ ~run.use_sample_data
    /\ ~run.executed
    /\ run.at > lastExec[FALSE].at
    /\ lastExec[FALSE].calls # <<>>
    /\ run.triple[1] # <<>>
    /\ constructions = 1

\* C10: after a live execution in which a Supabase or Databento call raised, the
\* body is not executed again for that argument before the TTL has passed, and
\* every live rerun inside the window gets the data that execution returned and
\* attempts no external call.
C10_DegradedMemoized ==
    /\ (lastExec[FALSE].present /\ lastExec[FALSE].prev.present
            /\ lastExec[FALSE].prev.failed) =>
          lastExec[FALSE].at - lastExec[FALSE].prev.at >= TTL
    /\ (run.started /\ ~run.use_sample_data /\ lastExec[FALSE].present
            /\ AnyRaised(lastExec[FALSE].calls)
            /\ run.at - lastExec[FALSE].at < TTL) =>
          /\ run.triple = lastExec[FALSE].triple
          /\ run.rendered # NotRendered
          /\ \/ run.calls = <<>> /\ ~run.executed
             \/ run.executed /\ run.at = lastExec[FALSE].at

\* fetch_trades raised in the latest live execution; a later rerun inside the
\* window got the empty data from the cache and called nothing
C10_Witness ==
    /\ run.started
    /\ ~run.use_sample_data
    /\ ~run.executed
    /\ lastExec[FALSE].present
    /\ \E i \in DOMAIN lastExec[FALSE].calls :
          lastExec[FALSE].calls[i].fn = "fetch_trades" /\ lastExec[FALSE].calls[i].raised
    /\ run.at > lastExec[FALSE].at
    /\ run.triple[1] = <<>>
    /\ run.calls = <<>>

-----------------------------------------------------------------------------
(* Properties of sign_up / sign_in / sign_out called in any order (SpecCalls) *)

\* C3: after any sequence of sign_up, sign_in and sign_out calls, 'user' is in
\* the session exactly when some sign_in succeeded and no sign_out came after
\* the latest successful one, and it then holds the user of that sign_in; a
\* sign_up, whatever its outcome, and a sign_in that did not succeed leave the
\* session as it was.
C3_UserIffSignedIn ==
    /\ HasUser(session) <=> authLog.signedIn
    /\ authLog.signedIn => session["user"] = authLog.user
    /\ view.fn = "sign_up" => session = view.before
    /\ (view.fn = "sign_in" /\ view.error # None) => session = view.before

\* a sign_in whose auth call raised while another user was signed in: the
\* session still holds that user
C3_Witness ==
    /\ view.fn = "sign_in"
    /\ view.error # None
    /\ view.calls # <<>>
    /\ HasUser(session)
    /\ \E e \in Emails : view.calls[1].email = e /\ session["user"].email # e

-----------------------------------------------------------------------------
(* Properties of the script runs of streamlit_app.py (SpecAuth) *)

ConfiguredKeys(e) == IF e.secrets.exists THEN e.secrets.keys ELSE e.environ

SupabaseKeysAbsent(e) == ~({"SUPABASE_URL", "SUPABASE_KEY"} \subseteq ConfiguredKeys(e))

DatabentoKeyAbsent(e) == "DATABENTO_API_KEY" \notin ConfiguredKeys(e)

\* C6 (streamlit_app.py): missing configuration is never fatal: no run ends in
\* an exception of the configuration and every run renders one of its two views;
\* without the Supabase keys no auth-service call is made and a submitted
\* sign_up / sign_in returns (None, "Supabase client not initialized.") and
\* leaves the session alone; without the Databento key no get_range call is made.
C6_MissingConfigNeverFatal ==
    view.started =>
        /\ view.escaped = None
        /\ view.rendered \in {"auth", "dashboard"}
        /\ SupabaseKeysAbsent(env) =>
              /\ view.authCalls = <<>>
              /\ ~HasUser(session)
              /\ view.submit.present =>
                    /\ view.user = None
                    /\ view.error = "Supabase client not initialized."
        /\ DatabentoKeyAbsent(env) => view.dbCalls = <<>>

\* C6, for the runs whose configuration did not raise: the rest of the claim
C6_DisabledWhenConfigRead ==
    (view.started /\ view.escaped = None) =>
        /\ view.rendered \in {"auth", "dashboard"}
        /\ SupabaseKeysAbsent(env) =>
              /\ view.authCalls = <<>>
              /\ ~HasUser(session)
              /\ view.submit.present =>
                    /\ view.user = None
                    /\ view.error = "Supabase client not initialized."
        /\ DatabentoKeyAbsent(env) => view.dbCalls = <<>>

SubmitRaised ==
    /\ view.started
    /\ view.submit.present
    /\ view.authCalls # <<>>
    /\ view.submit.outcome.kind = "raise"

\* C7: for every submitted form whose auth-service call raised, with any
\* message, the "Sign-in failed" / "Sign-up failed" error is shown, 'user' is not
\* in the session and st.rerun() is not triggered; st.rerun() is triggered only
\* after a sign_in that stored a user in the session.
C7_FailureShownNoRerun ==
    /\ SubmitRaised =>
          /\ HasNote(view.notes, "error",
                IF view.submit.choice = "Sign Up" THEN "Sign-up failed"
                ELSE "Sign-in failed")
          /\ ~HasUser(session)
          /\ ~view.rerun
    /\ (view.started /\ view.rerun) =>
          /\ view.submit.present
          /\ view.submit.choice = "Sign In"
          /\ HasUser(session)

\* C7, for the exceptions whose message is not empty
C7_WhenMessageNotEmpty ==
    /\ (SubmitRaised /\ view.submit.outcome.msg # "") =>
          /\ HasNote(view.notes, "error",
                IF view.submit.choice = "Sign Up" THEN "Sign-up failed"
                ELSE "Sign-in failed")
          /\ ~HasUser(session)
          /\ ~view.rerun
    /\ (view.started /\ view.rerun
           /\ ~(SubmitRaised /\ view.submit.outcome.msg = "")) =>
          /\ view.submit.present
          /\ view.submit.choice = "Sign In"
          /\ HasUser(session)

\* C9: every script run renders exactly one of the two views, the authentication
\* form when 'user' was absent at its start and the dashboard when it was
\* present; a get_range call is made only from the dashboard, as a signed-in
\* user; the run the Sign Out callback starts renders the authentication form
\* and calls nothing.
C9_OneViewPerRun ==
    view.started =>
        /\ view.rendered \in {"auth", "dashboard"}
        /\ view.rendered = "auth" <=> ~view.userAtStart
        /\ view.dbCalls # <<>> =>
              (view.rendered = "dashboard" /\ authLog.signedIn /\ HasUser(session))
        /\ view.interaction = "sign_out" =>
              (view.rendered = "auth" /\ view.dbCalls = <<>> /\ ~authLog.signedIn)

\* C9, for the runs whose configuration did not raise
C9_WhenConfigRead ==
    (view.started /\ view.escaped = None) =>
        /\ view.rendered \in {"auth", "dashboard"}
        /\ view.rendered = "auth" <=> ~view.userAtStart
        /\ view.dbCalls # <<>> =>
              (view.rendered = "dashboard" /\ authLog.signedIn /\ HasUser(session))
        /\ view.interaction = "sign_out" =>
              (view.rendered = "auth" /\ view.dbCalls = <<>> /\ ~authLog.signedIn)

=============================================================================
